---- MODULE Spec2Model ----
(***************************************************************************)
(* Model of src/multiply_ai_coding_task/chat.py: the dialogue engine       *)
(* chat_response, the extraction adapter (extract_user_info,               *)
(* extract_goal_details) and the normalizers parse_date / parse_currency.  *)
(*                                                                         *)
(* Text is a sequence of one-character strings; the fixed AI messages are  *)
(* one-element sequences holding the literal of the source.                *)
(***************************************************************************)
EXTENDS Integers, Sequences, FiniteSets, TLC

VARIABLES state, heap, today, input, before, response, llmCalls, raised,
          turns, replay, happy, call, result

vars == <<state, heap, today, input, before, response, llmCalls, raised,
          turns, replay, happy, call, result>>

----------------------------------------------------------------------------
(* Bounds of the model.                                                    *)

\* Number of calls of chat_response in one conversation.
MaxTurns == 8

----------------------------------------------------------------------------
(* Python values.                                                          *)

None == [t |-> "None"]

IsNone(v) == v = None

\* str.lower() on the letters the inputs use.
UpperChars == <<"A","B","C","D","E","F","G","H","I","J","K","L","M",
                "N","O","P","Q","R","S","T","U","V","W","X","Y","Z">>
LowerChars == <<"a","b","c","d","e","f","g","h","i","j","k","l","m",
                "n","o","p","q","r","s","t","u","v","w","x","y","z">>

LowerChar(c) ==
    IF \E i \in 1..Len(UpperChars) : UpperChars[i] = c
    THEN LowerChars[CHOOSE i \in 1..Len(UpperChars) : UpperChars[i] = c]
    ELSE c

Lower(s) == [i \in 1..Len(s) |-> LowerChar(s[i])]

Whitespace == {" ", "\t", "\n", "\r"}

\* str.strip(): drop leading and trailing whitespace.
Strip(s) ==
    LET keep == {i \in 1..Len(s) : s[i] \notin Whitespace}
    IN  IF keep = {} THEN <<>>
        ELSE LET lo == CHOOSE i \in keep : \A j \in keep : i <= j
                 hi == CHOOSE i \in keep : \A j \in keep : j <= i
             IN  SubSeq(s, lo, hi)

\* str.startswith(p)
StartsWith(s, p) == Len(s) >= Len(p) /\ SubSeq(s, 1, Len(p)) = p

\* p in s (substring test)
Contains(s, p) ==
    \E i \in 1..(Len(s) - Len(p) + 1) : SubSeq(s, i, i + Len(p) - 1) = p

Digits == <<"0","1","2","3","4","5","6","7","8","9">>

IsDigit(c) == \E i \in 1..10 : Digits[i] = c

DigitVal(c) == (CHOOSE i \in 1..10 : Digits[i] = c) - 1

AllDigits(s) == \A i \in 1..Len(s) : IsDigit(s[i])

\* int(s) for a string of decimal digits
RECURSIVE ToInt(_)
ToInt(s) ==
    IF s = <<>> THEN 0
    ELSE 10 * ToInt(SubSeq(s, 1, Len(s) - 1)) + DigitVal(s[Len(s)])

\* Decimal digits of n, at least w of them (zero padded): "%0wd".
RECURSIVE Pad(_, _)
Pad(n, w) ==
    IF n < 10 /\ w <= 1 THEN <<Digits[n + 1]>>
    ELSE Pad(n \div 10, w - 1) \o <<Digits[(n % 10) + 1]>>

----------------------------------------------------------------------------
(* datetime.date: a record [year, month, day]; date arithmetic goes        *)
(* through the proleptic Gregorian ordinal, as datetime does.              *)

Date(y, m, d) == [year |-> y, month |-> m, day |-> d]

IsLeap(y) == (y % 4 = 0) /\ ((y % 100 # 0) \/ (y % 400 = 0))

DaysInMonth(y, m) ==
    IF m = 2 THEN (IF IsLeap(y) THEN 29 ELSE 28)
    ELSE IF m \in {4, 6, 9, 11} THEN 30 ELSE 31

\* dt.date(y, m, d) raises ValueError outside these ranges.
ValidDate(y, m, d) ==
    /\ y \in 1..9999
    /\ m \in 1..12
    /\ d >= 1 /\ d <= DaysInMonth(y, m)

DaysBeforeYear(y) ==
    365 * (y - 1) + ((y - 1) \div 4) - ((y - 1) \div 100) + ((y - 1) \div 400)

RECURSIVE DaysBeforeMonth(_, _)
DaysBeforeMonth(y, m) ==
    IF m = 1 THEN 0 ELSE DaysBeforeMonth(y, m - 1) + DaysInMonth(y, m - 1)

ToOrdinal(d) == DaysBeforeYear(d.year) + DaysBeforeMonth(d.year, d.month) + d.day

FromOrdinal(n) ==
    LET y == CHOOSE yy \in ((n \div 366) + 1)..((n \div 365) + 1) :
                 DaysBeforeYear(yy) < n /\ n <= DaysBeforeYear(yy + 1)
        r == n - DaysBeforeYear(y)
        m == CHOOSE mm \in 1..12 :
                 DaysBeforeMonth(y, mm) < r /\ r <= DaysBeforeMonth(y, mm) + DaysInMonth(y, mm)
    IN  Date(y, m, r - DaysBeforeMonth(y, m))

\* date + timedelta(days=n): None stands for the OverflowError raised when
\* the result leaves date.min..date.max.
AddDays(d, n) ==
    LET o == ToOrdinal(d) + n
    IN  IF o >= 1 /\ o <= DaysBeforeYear(10000) THEN FromOrdinal(o) ELSE None

\* str(date): ISO format, zero padded.
DateStr(d) == Pad(d.year, 4) \o <<"-">> \o Pad(d.month, 2) \o <<"-">> \o Pad(d.day, 2)

\* str.split(sep) for a one-character separator.
RECURSIVE SplitOn(_, _)
SplitOn(s, sep) ==
    IF \A i \in 1..Len(s) : s[i] # sep THEN <<s>>
    ELSE LET k == CHOOSE i \in 1..Len(s) : s[i] = sep /\ \A j \in 1..(i - 1) : s[j] # sep
         IN  <<SubSeq(s, 1, k - 1)>> \o SplitOn(SubSeq(s, k + 1, Len(s)), sep)

\* The runs of non-whitespace characters of s (what \s+ separates).
RECURSIVE Tokens(_)
Tokens(s) ==
    LET t == Strip(s)
    IN  IF t = <<>> THEN <<>>
        ELSE IF \A i \in 1..Len(t) : t[i] \notin Whitespace THEN <<t>>
        ELSE LET k == CHOOSE i \in 1..Len(t) :
                          t[i] \in Whitespace /\ \A j \in 1..(i - 1) : t[j] \notin Whitespace
             IN  <<SubSeq(t, 1, k - 1)>> \o Tokens(SubSeq(t, k + 1, Len(t)))

\* strptime directives: %Y is exactly four digits, %m and %d one or two.
IsYearField(s) == Len(s) = 4 /\ AllDigits(s)

IsMonthField(s) == Len(s) \in {1, 2} /\ AllDigits(s) /\ ToInt(s) \in 1..12

IsDayField(s) == Len(s) \in {1, 2} /\ AllDigits(s) /\ ToInt(s) \in 1..31

MonthNames ==
    <<<<"j","a","n","u","a","r","y">>,
      <<"f","e","b","r","u","a","r","y">>,
      <<"m","a","r","c","h">>,
      <<"a","p","r","i","l">>,
      <<"m","a","y">>,
      <<"j","u","n","e">>,
      <<"j","u","l","y">>,
      <<"a","u","g","u","s","t">>,
      <<"s","e","p","t","e","m","b","e","r">>,
      <<"o","c","t","o","b","e","r">>,
      <<"n","o","v","e","m","b","e","r">>,
      <<"d","e","c","e","m","b","e","r">>>>

\* %B: full month name; %b: its first three letters.
MonthOfFull(s) ==
    IF \E m \in 1..12 : MonthNames[m] = s
    THEN CHOOSE m \in 1..12 : MonthNames[m] = s ELSE 0

MonthOfAbbr(s) ==
    IF \E m \in 1..12 : SubSeq(MonthNames[m], 1, 3) = s
    THEN CHOOSE m \in 1..12 : SubSeq(MonthNames[m], 1, 3) = s ELSE 0

\* One strptime attempt: the date, or None for ValueError.
MkDate(y, m, d) == IF ValidDate(y, m, d) THEN Date(y, m, d) ELSE None

\* a if it is a value, else b (the next attempt)
OrElse(a, b) == IF IsNone(a) THEN b ELSE a

\* The three fields of "%Y-%m-%d" (p = the text split at "-")
FieldsYMD(p) ==
    IF Len(p) = 3 /\ IsYearField(p[1]) /\ IsMonthField(p[2]) /\ IsDayField(p[3])
    THEN MkDate(ToInt(p[1]), ToInt(p[2]), ToInt(p[3])) ELSE None

StrpYMD(s) == FieldsYMD(SplitOn(s, "-"))

\* The three fields of "%d/%m/%Y" (p = the text split at "/")
FieldsDMY(p) ==
    IF Len(p) = 3 /\ IsDayField(p[1]) /\ IsMonthField(p[2]) /\ IsYearField(p[3])
    THEN MkDate(ToInt(p[3]), ToInt(p[2]), ToInt(p[1])) ELSE None

StrpDMY(s) == FieldsDMY(SplitOn(s, "/"))

\* The three fields of "%m/%d/%Y"
FieldsMDY(p) ==
    IF Len(p) = 3 /\ IsMonthField(p[1]) /\ IsDayField(p[2]) /\ IsYearField(p[3])
    THEN MkDate(ToInt(p[3]), ToInt(p[1]), ToInt(p[2])) ELSE None

StrpMDY(s) == FieldsMDY(SplitOn(s, "/"))

\* %B (full = TRUE) or %b (full = FALSE): the month number, 0 for no match
MonthOf(name, full) == IF full THEN MonthOfFull(name) ELSE MonthOfAbbr(name)

\* "<month> <day>, <year>": p = the tokens, m = the month number
FieldsNameDayYear(p, m) ==
    IF /\ m # 0
       /\ Len(p[2]) >= 2 /\ p[2][Len(p[2])] = ","
       /\ IsDayField(SubSeq(p[2], 1, Len(p[2]) - 1)) /\ IsYearField(p[3])
    THEN MkDate(ToInt(p[3]), m, ToInt(SubSeq(p[2], 1, Len(p[2]) - 1))) ELSE None

TokensNameDayYear(p, full) ==
    IF Len(p) # 3 THEN None ELSE FieldsNameDayYear(p, MonthOf(p[1], full))

\* "%B %d, %Y" (full = TRUE) and "%b %d, %Y" (full = FALSE)
StrpNameDayYear(s, full) == TokensNameDayYear(Tokens(s), full)

FieldsNameYear(p, m) ==
    IF m # 0 /\ IsYearField(p[2]) THEN MkDate(ToInt(p[2]), m, 1) ELSE None

TokensNameYear(p, full) ==
    IF Len(p) # 2 THEN None ELSE FieldsNameYear(p, MonthOf(p[1], full))

\* "%B %Y" (full = TRUE) and "%b %Y" (full = FALSE): the first of the month
StrpNameYear(s, full) == TokensNameYear(Tokens(s), full)

\* re.match(r'^(jan|...|dec)[a-z]* \d{4}$', s)
MatchesMonthYear(s) ==
    /\ Len(s) >= 8
    /\ MonthOfAbbr(SubSeq(s, 1, 3)) # 0
    /\ s[Len(s) - 4] = " "
    /\ AllDigits(SubSeq(s, Len(s) - 3, Len(s)))
    /\ \A i \in 4..(Len(s) - 5) : \E k \in 1..26 : LowerChars[k] = s[i]

\* re.search(r'\d+', s).group(): the first run of digits, <<>> when none.
FirstDigitRun(s) ==
    IF \A i \in 1..Len(s) : ~IsDigit(s[i]) THEN <<>>
    ELSE LET a == CHOOSE i \in 1..Len(s) : IsDigit(s[i]) /\ \A j \in 1..(i - 1) : ~IsDigit(s[j])
             b == CHOOSE i \in a..Len(s) :
                      /\ \A j \in a..i : IsDigit(s[j])
                      /\ (i = Len(s) \/ ~IsDigit(s[i + 1]))
         IN  SubSeq(s, a, b)

\* Mutant: a month counted as 31 days
RelativeBy_Month31(s, td, num) ==
    IF Contains(s, <<"d","a","y">>) THEN AddDays(td, num)
    ELSE IF Contains(s, <<"w","e","e","k">>) THEN AddDays(td, 7 * num)
    ELSE IF Contains(s, <<"m","o","n","t","h">>) THEN AddDays(td, 31 * num)
    ELSE IF Contains(s, <<"y","e","a","r">>) THEN AddDays(td, 365 * num)
    ELSE None

\* today + N units, for the N read from the text
RelativeBy(s, td, num) ==
    IF Contains(s, <<"d","a","y">>) THEN AddDays(td, num)
    ELSE IF Contains(s, <<"w","e","e","k">>) THEN AddDays(td, 7 * num)
    ELSE IF Contains(s, <<"m","o","n","t","h">>) THEN AddDays(td, 30 * num)
    ELSE IF Contains(s, <<"y","e","a","r">>) THEN AddDays(td, 365 * num)
    ELSE None

RelativeFrom(s, td, run) ==
    IF run = <<>> THEN None ELSE RelativeBy(s, td, ToInt(run))

\* The "in N <unit>" branch of parse_date: a date, or None when the branch
\* falls through (no digits, no unit word, or OverflowError).
RelativeDate(s, td) ==
    IF StartsWith(s, <<"i","n"," ">>) THEN RelativeFrom(s, td, FirstDigitRun(s))
    ELSE None

\* The part of parse_date after the "in " branch.
AbsoluteDate(s, td) ==
    IF s = <<"n","e","x","t"," ","m","o","n","t","h">>
    THEN Date(IF td.month < 12 THEN td.year ELSE td.year + 1,
              IF td.month < 12 THEN td.month + 1 ELSE 1, 1)
    ELSE IF s = <<"n","e","x","t"," ","y","e","a","r">>
    THEN Date(td.year + 1, 1, 1)
    ELSE OrElse(StrpYMD(s),
         OrElse(StrpDMY(s),
         OrElse(StrpMDY(s),
         OrElse(StrpNameDayYear(s, TRUE),
         OrElse(StrpNameDayYear(s, FALSE),
         OrElse(IF MatchesMonthYear(s)
                THEN OrElse(StrpNameYear(s, TRUE), StrpNameYear(s, FALSE))
                ELSE None,
                IF Len(s) = 4 /\ SubSeq(s, 1, 2) = <<"2","0">> /\ AllDigits(s)
                THEN Date(ToInt(s), 1, 1)
                ELSE None))))))

\* parse_date on the lower-cased, stripped text
ParseNormalized(s, td) == OrElse(RelativeDate(s, td), AbsoluteDate(s, td))

\* parse_date(date_str) with dt.date.today() = td
parse_date(date_str, td) ==
    IF date_str = <<>> THEN None
    ELSE ParseNormalized(Strip(Lower(date_str)), td)

\* str(x) for the values an f-string field can hold here.
RECURSIVE Grouped(_)
Grouped(n) ==
    IF n < 1000 THEN Pad(n, 1)
    ELSE Grouped(n \div 1000) \o <<",">> \o Pad(n % 1000, 3)

\* f"{x:,.2f}" for a whole amount x
FormatMoney(n) == Grouped(n) \o <<".", "0", "0">>

----------------------------------------------------------------------------
(* Amounts: parse_currency.                                                *)
(*                                                                         *)
(* A float is kept exactly, as mant * 10^exp with mant not ending in 0.    *)

RECURSIVE Float(_, _)
Float(m, e) ==
    IF m = 0 THEN [mant |-> 0, exp |-> 0]
    ELSE IF m % 10 = 0 THEN Float(m \div 10, e + 1)
    ELSE [mant |-> m, exp |-> e]

\* x * 10^k
Times(x, k) == Float(x.mant, x.exp + k)

\* The characters of the class [\d.]
IsNumericChar(c) == IsDigit(c) \/ c = "."

\* re.search(r'[\d.]+', s).group(): the first run of digits and dots,
\* <<>> when there is none (re.search gives None).
FirstNumericRun(s) ==
    IF \A i \in 1..Len(s) : ~IsNumericChar(s[i]) THEN <<>>
    ELSE LET a == CHOOSE i \in 1..Len(s) :
                      IsNumericChar(s[i]) /\ \A j \in 1..(i - 1) : ~IsNumericChar(s[j])
             b == CHOOSE i \in a..Len(s) :
                      /\ \A j \in a..i : IsNumericChar(s[j])
                      /\ (i = Len(s) \/ ~IsNumericChar(s[i + 1]))
         IN  SubSeq(s, a, b)

\* The number of characters of run after its first dot
DecimalsOf(run) ==
    IF \A i \in 1..Len(run) : run[i] # "." THEN 0
    ELSE Len(run) - (CHOOSE i \in 1..Len(run) : run[i] = "." /\ \A j \in 1..(i - 1) : run[j] # ".")

\* float(run) for a run of digits and dots: ValueError (Raise) unless the
\* run has a digit and at most one dot.
FloatOfRun(run) ==
    IF Cardinality({i \in 1..Len(run) : run[i] = "."}) > 1
       \/ \A i \in 1..Len(run) : ~IsDigit(run[i])
    THEN [t |-> "raise"]
    ELSE Float(ToInt(SelectSeq(run, IsDigit)), 0 - DecimalsOf(run))

\* str.replace(",", "")
RemoveCommas(s) == SelectSeq(s, LAMBDA c : c # ",")

\* The decimal exponent of the multiplier chosen by the if/elif chain
MultiplierExp(amount) ==
    IF Contains(amount, <<"m","i","l","l","i","o","n">>) THEN 6
    ELSE IF Contains(amount, <<"b","i","l","l","i","o","n">>) THEN 9
    ELSE IF Contains(amount, <<"t","h","o","u","s","a","n","d">>) THEN 3
    ELSE IF Contains(amount, <<"m">>) THEN 6
    ELSE IF Contains(amount, <<"b">>) THEN 9
    ELSE IF Contains(amount, <<"k">>) THEN 3
    ELSE 0

\* numeric_part * multiplier, or None when float() raised
Scaled(amount, numeric_part) ==
    IF numeric_part = [t |-> "raise"] THEN None
    ELSE Times(numeric_part, MultiplierExp(amount))

\* parse_currency on the lower-cased text without commas, stripped
CurrencyOf(amount) ==
    IF FirstNumericRun(amount) = <<>> THEN None
    ELSE Scaled(amount, FloatOfRun(FirstNumericRun(amount)))

\* parse_currency(amount)
parse_currency(amount) ==
    IF amount = <<>> THEN None
    ELSE CurrencyOf(Strip(RemoveCommas(Lower(amount))))

----------------------------------------------------------------------------
(* The extraction service and json.loads.                                  *)
(*                                                                         *)
(* A JSON value is an object [t |-> "obj", v |-> fields], a string         *)
(* [t |-> "str", v |-> text] or a number [t |-> "num", v |-> n].  A reply   *)
(* of the service is an API error, an empty text, or a text whose body is  *)
(* a JSON value or is not parseable, possibly inside a ```json fence.      *)

JObj(f) == [t |-> "obj", v |-> f]
JStr(s) == [t |-> "str", v |-> s]
JNum(n) == [t |-> "num", v |-> n]

Malformed == [t |-> "malformed"]

ApiError == [t |-> "error"]
EmptyText == [t |-> "empty"]
Text(body) == [t |-> "text", fenced |-> FALSE, body |-> body]
Fenced(body) == [t |-> "text", fenced |-> TRUE, body |-> body]

\* A raised exception, as the result of an operator.
Raise == [t |-> "raise"]

\* llm(prompt): GoogleAPIError is caught and None returned
llm(r) == IF r.t = "error" THEN None ELSE r

\* json.loads(response.strip()) after the fence is split off; Raise for
\* JSONDecodeError.
json_loads(r) == IF r.body = Malformed THEN Raise ELSE r.body

\* bool(data)
Truthy(data) ==
    IF IsNone(data) THEN FALSE
    ELSE IF data.t = "obj" THEN DOMAIN data.v # {}
    ELSE IF data.t = "str" THEN data.v # <<>>
    ELSE data.v # 0

\* parse_date applied to a JSON value: a non-string has no .lower()
parse_date_value(j, td) ==
    IF j.t = "str" THEN parse_date(j.v, td)
    ELSE IF ~Truthy(j) THEN None
    ELSE Raise

\* float(x): inputs are whole numbers or text; text of digits converts,
\* other text raises ValueError (FloatRaises).
FloatRaises(j) == ~(j.t = "num" \/ (j.t = "str" /\ j.v # <<>> /\ AllDigits(j.v)))

float(j) == IF j.t = "num" THEN j.v ELSE ToInt(j.v)

\* The keys of the JSON objects, as text.
KeyText(k) ==
    CASE k = "first_name" -> <<"f","i","r","s","t","_","n","a","m","e">>
      [] k = "last_name" -> <<"l","a","s","t","_","n","a","m","e">>
      [] k = "date_of_birth" -> <<"d","a","t","e","_","o","f","_","b","i","r","t","h">>
      [] k = "email" -> <<"e","m","a","i","l">>
      [] k = "purchase_date" -> <<"p","u","r","c","h","a","s","e","_","d","a","t","e">>
      [] k = "target_date" -> <<"t","a","r","g","e","t","_","d","a","t","e">>

\* k in data raises TypeError unless data is a container (here: a number).
InRaises(data) == data.t \notin {"obj", "str"}

\* k in data, for a key given by name
In(k, data) ==
    IF data.t = "obj" THEN k \in DOMAIN data.v
    ELSE Contains(data.v, KeyText(k))

\* `not response`: llm returned None or an empty text
NoResponse(resp) == IsNone(resp) \/ resp = EmptyText

\* Mutant: json.loads outside the try block, so JSONDecodeError escapes
ParsedUserInfo_NoCatch(data) == data

\* The result of json.loads inside the try block of extract_user_info
ParsedUserInfo(data) == IF data = Raise THEN JObj(<<>>) ELSE data

\* extract_user_info(text): every failure gives the empty dict
extract_user_info(r) ==
    IF NoResponse(llm(r)) THEN JObj(<<>>) ELSE ParsedUserInfo(json_loads(llm(r)))

\* The date validation of extract_goal_details, given the parsed date
DateValidated(data, date_key, parsed_date) ==
    IF parsed_date = Raise \/ IsNone(parsed_date) THEN None
    ELSE JObj([data.v EXCEPT ![date_key] = JStr(DateStr(parsed_date))])

DateKeyOf(data) == IF In("purchase_date", data) THEN "purchase_date" ELSE "target_date"

\* extract_goal_details after json.loads
ValidatedGoalData(data, td) ==
    IF data = Raise THEN None
    ELSE IF InRaises(data) THEN None
    ELSE IF In("purchase_date", data) \/ In("target_date", data)
    THEN IF data.t # "obj" THEN None
         ELSE DateValidated(data, DateKeyOf(data),
                            parse_date_value(data.v[DateKeyOf(data)], td))
    ELSE data

\* extract_goal_details(text, goal_type): the data, or None
extract_goal_details(r, td) ==
    IF NoResponse(llm(r)) THEN None ELSE ValidatedGoalData(json_loads(llm(r)), td)

----------------------------------------------------------------------------
(* The conversation data and chat_response.                                *)

STOP_COMMANDS == {<<"e","x","i","t">>, <<"q","u","i","t">>, <<"s","t","o","p">>, <<"d","o","n","e">>}

USER == "user"
AI == "ai"

Message(text, sender) == [text |-> text, sender |-> sender]

GET_USER_INFO == "get_user_info"
GET_GOAL_TYPE == "get_goal_type"
GET_GOAL_DETAILS == "get_goal_details"
CONFIRM_GOAL == "confirm_goal"
ADD_ANOTHER_GOAL == "add_another_goal"
COMPLETED == "completed"

ConversationStage ==
    {GET_USER_INFO, GET_GOAL_TYPE, GET_GOAL_DETAILS, CONFIRM_GOAL,
     ADD_ANOTHER_GOAL, COMPLETED}

\* ExtractedInformation() with its defaults
ExtractedInformation ==
    [user |-> None, pending_goal |-> None, conversation_stage |-> GET_USER_INFO]

\* ConversationState() with its defaults; extracted_information is a
\* reference into the heap.
ConversationState(finished, messages, new_messages, ref) ==
    [finished |-> finished, messages |-> messages,
     new_messages |-> new_messages, extracted_information |-> ref]

\* What one branch of chat_response leaves behind: the ExtractedInformation
\* object after its assignments, the AI messages of the turn, whether an
\* exception left the function, and the number of calls of llm.
Branch(e, msgs, calls) == [e |-> e, msgs |-> msgs, raised |-> FALSE, calls |-> calls]

Raised(e, calls) == [e |-> e, msgs |-> <<>>, raised |-> TRUE, calls |-> calls]

\* dict.get(k, default)
Get(d, k, default) == IF k \in DOMAIN d.v THEN d.v[k] ELSE default

\* str(x) inside an f-string
Str(j) == IF j.t = "str" THEN j.v ELSE Pad(j.v, 1)

StrDate(d) == IF IsNone(d) THEN <<"N","o","n","e">> ELSE DateStr(d)

\* Mutant: a stop word commits the goal that is pending
StopBranch_CommitPending(e) ==
    IF IsNone(e.pending_goal)
    THEN Branch([e EXCEPT !.conversation_stage = COMPLETED],
                <<Message(<<"Thank you for providing your financial goals information.">>, AI)>>,
                0)
    ELSE Branch([e EXCEPT !.user.goals = Append(@, e.pending_goal),
                          !.conversation_stage = COMPLETED],
                <<Message(<<"Thank you for providing your financial goals information.">>, AI)>>,
                0)

\* Mutant: the stop branch leaves the stage as it is
StopBranch_KeepStage(e) ==
    Branch(e,
           <<Message(<<"Thank you for providing your financial goals information.">>, AI)>>,
           0)

\* The stop branch
StopBranch(e) ==
    Branch([e EXCEPT !.conversation_stage = COMPLETED],
           <<Message(<<"Thank you for providing your financial goals information.">>, AI)>>,
           0)

\* The User built from the extracted fields, stage GET_GOAL_TYPE
UserCreated(e, fields, dob) ==
    IF dob = Raise THEN Raised(e, 1)
    ELSE Branch(
           [e EXCEPT
              !.user = [first_name |-> fields["first_name"],
                        last_name |-> fields["last_name"],
                        date_of_birth |-> dob,
                        email |-> fields["email"],
                        goals |-> <<>>],
              !.conversation_stage = GET_GOAL_TYPE],
           <<Message(<<"Thank you! What financial goal would you like to discuss? (new home/new car/other)">>, AI)>>,
           1)

\* Mutant: the stage advances although no User was built
UserInfoBranch_NoUser(e, user_info, td) ==
    Branch([e EXCEPT !.conversation_stage = GET_GOAL_TYPE], <<>>, 1)

\* stage GET_USER_INFO, given the result of extract_user_info
UserInfoBranch(e, user_info, td) ==
    IF InRaises(user_info) THEN Raised(e, 1)
    ELSE IF \A k \in {"first_name", "last_name", "date_of_birth", "email"} : In(k, user_info)
    THEN IF user_info.t # "obj" THEN Raised(e, 1)
         ELSE UserCreated(e, user_info.v, parse_date_value(user_info.v["date_of_birth"], td))
    ELSE Branch(e,
                <<Message(<<"Please provide your full name, date of birth (YYYY-MM-DD), and email">>, AI)>>,
                1)

\* stage GET_USER_INFO
GetUserInfoBranch(e, r, td) == UserInfoBranch(e, extract_user_info(r), td)

Goal(goal_type, goal_name, info) ==
    [goal_type |-> goal_type, goal_name |-> goal_name,
     goal_specific_information |-> info]

\* Mutant: "car" is looked for before "home"
GetGoalTypeBranch_CarFirst(e, last_message) ==
    IF Contains(Lower(last_message), <<"c","a","r">>)
    THEN Branch([e EXCEPT !.pending_goal = Goal("NEW_CAR", <<"Buy a new car">>, None),
                          !.conversation_stage = GET_GOAL_DETAILS],
                <<Message(<<"Please tell me about the car you want to buy (make/model, price, and timeline)">>, AI)>>,
                0)
    ELSE IF Contains(Lower(last_message), <<"h","o","m","e">>)
    THEN Branch([e EXCEPT !.pending_goal = Goal("NEW_HOME", <<"Buy a new home">>, None),
                          !.conversation_stage = GET_GOAL_DETAILS],
                <<Message(<<"Please tell me about the home you want to buy (location, price, deposit, and timeline)">>, AI)>>,
                0)
    ELSE Branch([e EXCEPT !.pending_goal = Goal("OTHER", <<"Other financial goal">>, None),
                          !.conversation_stage = GET_GOAL_DETAILS],
                <<Message(<<"Please describe your financial goal (what you want to achieve, how much money you'll need, and by when)">>, AI)>>,
                0)

\* stage GET_GOAL_TYPE
GetGoalTypeBranch(e, last_message) ==
    LET goal_type == Lower(last_message)
    IN  IF Contains(goal_type, <<"h","o","m","e">>)
        THEN Branch([e EXCEPT !.pending_goal = Goal("NEW_HOME", <<"Buy a new home">>, None),
                              !.conversation_stage = GET_GOAL_DETAILS],
                    <<Message(<<"Please tell me about the home you want to buy (location, price, deposit, and timeline)">>, AI)>>,
                    0)
        ELSE IF Contains(goal_type, <<"c","a","r">>)
        THEN Branch([e EXCEPT !.pending_goal = Goal("NEW_CAR", <<"Buy a new car">>, None),
                              !.conversation_stage = GET_GOAL_DETAILS],
                    <<Message(<<"Please tell me about the car you want to buy (make/model, price, and timeline)">>, AI)>>,
                    0)
        ELSE Branch([e EXCEPT !.pending_goal = Goal("OTHER", <<"Other financial goal">>, None),
                              !.conversation_stage = GET_GOAL_DETAILS],
                    <<Message(<<"Please describe your financial goal (what you want to achieve, how much money you'll need, and by when)">>, AI)>>,
                    0)

NewHomeGoalInformation(location, house_price, deposit_amount, purchase_date) ==
    [class |-> "NewHomeGoalInformation", location |-> location,
     house_price |-> house_price, deposit_amount |-> deposit_amount,
     purchase_date |-> purchase_date]

NewCarInformation(car_type, car_price, purchase_date) ==
    [class |-> "NewCarInformation", car_type |-> car_type,
     car_price |-> car_price, purchase_date |-> purchase_date]

OtherGoalInformation(description, amount_required, target_date) ==
    [class |-> "OtherGoalInformation", description |-> description,
     amount_required |-> amount_required, target_date |-> target_date]

\* The pending goal with its payload attached, stage CONFIRM_GOAL
Attach(e, info) ==
    [e EXCEPT !.pending_goal.goal_specific_information = info,
              !.conversation_stage = CONFIRM_GOAL]

\* NEW_HOME: the payload from the values read from goal_details
HomeDetails(e, location, house_price, deposit_amount, purchase_date) ==
    IF FloatRaises(house_price) \/ FloatRaises(deposit_amount) \/ purchase_date = Raise
    THEN Raised(e, 1)
    ELSE Branch(
           Attach(e, NewHomeGoalInformation(location, float(house_price),
                                            float(deposit_amount), purchase_date)),
           <<Message(<<"Confirm: Buy home in ">> \o Str(location) \o <<" for $">>
                     \o FormatMoney(float(house_price)) \o <<" with $">>
                     \o FormatMoney(float(deposit_amount)) \o <<" deposit by ">>
                     \o StrDate(purchase_date) \o <<"? (yes/no)">>, AI)>>,
           1)

\* NEW_CAR
CarDetails(e, car_type, car_price, purchase_date) ==
    IF FloatRaises(car_price) \/ purchase_date = Raise
    THEN Raised(e, 1)
    ELSE Branch(
           Attach(e, NewCarInformation(car_type, float(car_price), purchase_date)),
           <<Message(<<"Confirm: Buy ">> \o Str(car_type) \o <<" for $">>
                     \o FormatMoney(float(car_price)) \o <<" by ">>
                     \o StrDate(purchase_date) \o <<"? (yes/no)">>, AI)>>,
           1)

\* OTHER
OtherDetails(e, description, amount_required, target_date) ==
    IF FloatRaises(amount_required) \/ target_date = Raise
    THEN Raised(e, 1)
    ELSE Branch(
           Attach(e, OtherGoalInformation(description, float(amount_required), target_date)),
           <<Message(<<"Confirm: ">> \o Str(description) \o <<" requiring $">>
                     \o FormatMoney(float(amount_required)) \o <<" by ">>
                     \o StrDate(target_date) \o <<"? (yes/no)">>, AI)>>,
           1)

\* stage GET_GOAL_DETAILS, extraction succeeded
GoalDetailsFound(e, goal_details, td) ==
    IF goal_details.t # "obj" THEN Raised(e, 1)
    ELSE IF e.pending_goal.goal_type = "NEW_HOME"
    THEN HomeDetails(e, Get(goal_details, "location", JStr(<<>>)),
                     Get(goal_details, "house_price", JNum(0)),
                     Get(goal_details, "deposit_amount", JNum(0)),
                     parse_date_value(Get(goal_details, "purchase_date", JStr(<<>>)), td))
    ELSE IF e.pending_goal.goal_type = "NEW_CAR"
    THEN CarDetails(e, Get(goal_details, "car_type", JStr(<<>>)),
                    Get(goal_details, "car_price", JNum(0)),
                    parse_date_value(Get(goal_details, "purchase_date", JStr(<<>>)), td))
    ELSE OtherDetails(e, Get(goal_details, "description", JStr(<<>>)),
                      Get(goal_details, "amount_required", JNum(0)),
                      parse_date_value(Get(goal_details, "target_date", JStr(<<>>)), td))

\* stage GET_GOAL_DETAILS, extraction failed: the re-prompt of the kind
GoalDetailsMissing(e) ==
    IF e.pending_goal.goal_type = "NEW_HOME"
    THEN Branch(e, <<Message(<<"I couldn't understand those home details. Please provide: location, price, deposit, and timeline (e.g. 'Buy $1.5M home in London with 50k deposit in 3 years')">>, AI)>>, 1)
    ELSE IF e.pending_goal.goal_type = "NEW_CAR"
    THEN Branch(e, <<Message(<<"I couldn't understand those car details. Please provide: make/model, price, and timeline (e.g. 'Buy a Tesla Model 3 for $40k in 6 months')">>, AI)>>, 1)
    ELSE Branch(e, <<Message(<<"I couldn't understand that goal. Please describe what you want to achieve, how much money you'll need, and by when (e.g. 'Start a business needing $50k by 2025')">>, AI)>>, 1)

\* stage GET_GOAL_DETAILS, given the result of extract_goal_details
GoalDetailsBranch(e, goal_details, td) ==
    IF Truthy(goal_details) THEN GoalDetailsFound(e, goal_details, td)
    ELSE GoalDetailsMissing(e)

\* stage GET_GOAL_DETAILS
GetGoalDetailsBranch(e, r, td) == GoalDetailsBranch(e, extract_goal_details(r, td), td)

\* Mutant: the confirmed goal is dropped instead of appended
ConfirmGoalBranch_NoAppend(e, last_message) ==
    Branch([e EXCEPT !.pending_goal = None,
                     !.conversation_stage = ADD_ANOTHER_GOAL],
           <<Message(<<"Goal saved! Would you like to add another goal? (yes/no)">>, AI)>>,
           0)

\* Mutant: the confirmed goal is put in front of the committed goals
ConfirmGoalBranch_Prepend(e, last_message) ==
    IF StartsWith(Lower(last_message), <<"y">>)
    THEN Branch([e EXCEPT !.user.goals = <<e.pending_goal>> \o @,
                          !.pending_goal = None,
                          !.conversation_stage = ADD_ANOTHER_GOAL],
                <<Message(<<"Goal saved! Would you like to add another goal? (yes/no)">>, AI)>>,
                0)
    ELSE Branch([e EXCEPT !.pending_goal = None,
                          !.conversation_stage = GET_GOAL_TYPE],
                <<Message(<<"Okay, let's try again. What goal would you like to discuss? (new home/new car/other)">>, AI)>>,
                0)

\* Mutant: a declined goal keeps its kind and only the details are asked again
ConfirmGoalBranch_BackToDetails(e, last_message) ==
    IF StartsWith(Lower(last_message), <<"y">>)
    THEN Branch([e EXCEPT !.user.goals = Append(@, e.pending_goal),
                          !.pending_goal = None,
                          !.conversation_stage = ADD_ANOTHER_GOAL],
                <<Message(<<"Goal saved! Would you like to add another goal? (yes/no)">>, AI)>>,
                0)
    ELSE Branch([e EXCEPT !.pending_goal.goal_specific_information = None,
                          !.conversation_stage = GET_GOAL_DETAILS],
                <<Message(<<"Okay, let's try again. What goal would you like to discuss? (new home/new car/other)">>, AI)>>,
                0)

\* stage CONFIRM_GOAL
ConfirmGoalBranch(e, last_message) ==
    IF StartsWith(Lower(last_message), <<"y">>)
    THEN Branch([e EXCEPT !.user.goals = Append(@, e.pending_goal),
                          !.pending_goal = None,
                          !.conversation_stage = ADD_ANOTHER_GOAL],
                <<Message(<<"Goal saved! Would you like to add another goal? (yes/no)">>, AI)>>,
                0)
    ELSE Branch([e EXCEPT !.pending_goal = None,
                          !.conversation_stage = GET_GOAL_TYPE],
                <<Message(<<"Okay, let's try again. What goal would you like to discuss? (new home/new car/other)">>, AI)>>,
                0)

\* Mutant: "yes" restarts the conversation at the identity stage
AddAnotherGoalBranch_Restart(e, last_message) ==
    IF StartsWith(Lower(last_message), <<"y">>)
    THEN Branch([e EXCEPT !.conversation_stage = GET_USER_INFO],
                <<Message(<<"What other financial goal would you like to discuss? (new home/new car/other)">>, AI)>>,
                0)
    ELSE Branch([e EXCEPT !.conversation_stage = COMPLETED],
                <<Message(<<"Thank you for providing your financial goals information.">>, AI)>>,
                0)

\* Mutant: the "y" test without .lower()
AddAnotherGoalBranch_CaseSensitive(e, last_message) ==
    IF StartsWith(last_message, <<"y">>)
    THEN Branch([e EXCEPT !.conversation_stage = GET_GOAL_TYPE],
                <<Message(<<"What other financial goal would you like to discuss? (new home/new car/other)">>, AI)>>,
                0)
    ELSE Branch([e EXCEPT !.conversation_stage = COMPLETED],
                <<Message(<<"Thank you for providing your financial goals information.">>, AI)>>,
                0)

\* stage ADD_ANOTHER_GOAL
AddAnotherGoalBranch(e, last_message) ==
    IF StartsWith(Lower(last_message), <<"y">>)
    THEN Branch([e EXCEPT !.conversation_stage = GET_GOAL_TYPE],
                <<Message(<<"What other financial goal would you like to discuss? (new home/new car/other)">>, AI)>>,
                0)
    ELSE Branch([e EXCEPT !.conversation_stage = COMPLETED],
                <<Message(<<"Thank you for providing your financial goals information.">>, AI)>>,
                0)

\* The utterance chat_response reads: the text of the last message
LastMessage(st) ==
    IF st.messages = <<>> THEN <<>> ELSE st.messages[Len(st.messages)].text

\* Mutant: the stop test without .strip()
IsStop_NoStrip(last_message) == Lower(last_message) \in STOP_COMMANDS

IsStop(last_message) == Strip(Lower(last_message)) \in STOP_COMMANDS

\* The branch chat_response takes on the object `extracted`
TakeBranch(extracted, last_message, r, td) ==
    IF IsStop(last_message) THEN StopBranch(extracted)
    ELSE IF extracted.conversation_stage = GET_USER_INFO
    THEN GetUserInfoBranch(extracted, r, td)
    ELSE IF extracted.conversation_stage = GET_GOAL_TYPE
    THEN GetGoalTypeBranch(extracted, last_message)
    ELSE IF extracted.conversation_stage = GET_GOAL_DETAILS
    THEN GetGoalDetailsBranch(extracted, r, td)
    ELSE IF extracted.conversation_stage = CONFIRM_GOAL
    THEN ConfirmGoalBranch(extracted, last_message)
    ELSE IF extracted.conversation_stage = ADD_ANOTHER_GOAL
    THEN AddAnotherGoalBranch(extracted, last_message)
    ELSE Branch(extracted, <<>>, 0)

\* Where the assignments to `extracted` land: chat_response works on the
\* object state.extracted_information itself, so they land in the heap cell
\* the input state refers to, and the returned state refers to the same cell.
StoreExtracted(h, ref, e) == [h EXCEPT ![ref] = e]

\* Mutant: finished set only by the stop branch
Finished_StopOnly(stopped, e) == stopped

\* finished of the returned state: TRUE in the stop branch, else computed
\* from the stage
Finished(stopped, e) == stopped \/ e.conversation_stage = COMPLETED

\* Mutant: the messages of the previous turn are not folded in
Fold_DropNew(st) == st.messages

\* The transcript of the returned state
Fold(st) == st.messages \o st.new_messages

\* What chat_response hands back after branch b: the returned state (ret),
\* the heap afterwards, whether it raised, and the number of calls of llm.
Returned(st, h, last_message, b) ==
    [raised |-> b.raised,
     calls |-> b.calls,
     heap |-> StoreExtracted(h, st.extracted_information, b.e),
     ret |-> ConversationState(Finished(IsStop(last_message), b.e),
                               Fold(st), b.msgs, st.extracted_information)]

\* chat_response(state) on heap h, with reply r of the extraction service
chat_response(st, h, r, td) ==
    Returned(st, h, LastMessage(st),
             TakeBranch(h[st.extracted_information], LastMessage(st), r, td))

----------------------------------------------------------------------------
(* The inputs of the model: what the user types, what the extraction       *)
(* service replies, and the day the conversation takes place.              *)
(*                                                                         *)
(* chat_response reads three things from an utterance: whether it is a     *)
(* stop word, whether it names a goal kind (stage GET_GOAL_TYPE), and      *)
(* whether it starts with "y" (stages CONFIRM_GOAL, ADD_ANOTHER_GOAL).  In  *)
(* each stage the user gives a stop word or one answer of every kind that  *)
(* stage tells apart.                                                      *)

U_identity == <<"J","o","h","n"," ","S","m","i","t","h",","," ","1","9","9","0","-","0","5","-","0","1",","," ","j","@","x",".","i","o">>
U_home == <<"h","o","m","e">>
U_car == <<"A"," ","n","e","w"," ","C","A","R">>
U_both == <<"C","a","r"," ","o","r"," ","H","o","m","e">>
U_details == <<"L","o","n","d","o","n",","," ","5","0","0","k",","," ","i","n"," ","2"," ","y","e","a","r","s">>
U_yes == <<"y","e","s">>
U_Yep == <<"Y","e","p">>
U_no == <<"n","o">>
U_exit == <<"e","x","i","t">>
U_quit == <<"Q","u","i","t"," ">>
U_stop == <<" ","S","T","O","P"," ">>
U_done == <<"d","o","n","e","\n">>

UtterancesAt(stg) ==
    CASE stg = GET_USER_INFO -> {U_identity, U_exit}
      [] stg = GET_GOAL_TYPE -> {U_home, U_car, U_both, U_no, U_quit}
      [] stg = GET_GOAL_DETAILS -> {U_details, U_stop}
      [] stg = CONFIRM_GOAL -> {U_yes, U_no, U_done}
      [] stg = ADD_ANOTHER_GOAL -> {U_Yep, U_no, U_stop}
      [] stg = COMPLETED -> {U_yes, U_exit}

Utterances ==
    {U_identity, U_home, U_car, U_both, U_details, U_yes, U_Yep, U_no,
     U_exit, U_quit, U_stop, U_done}

IdentityFields ==
    [first_name |-> JStr(<<"J","o","h","n">>), last_name |-> JStr(<<"S","m","i","t","h">>),
     date_of_birth |-> JStr(<<"1","9","9","0","-","0","5","-","0","1">>), email |-> JStr(<<"j","o","h","n","@","e","x","a","m","p","l","e",".","c","o","m">>)]

PartialIdentityFields ==
    [first_name |-> JStr(<<"J","o","h","n">>), last_name |-> JStr(<<"S","m","i","t","h">>),
     date_of_birth |-> JStr(<<"1","9","9","0","-","0","5","-","0","1">>)]

HomeFields ==
    [location |-> JStr(<<"L","o","n","d","o","n">>), house_price |-> JNum(500000),
     deposit_amount |-> JNum(50000), purchase_date |-> JStr(<<"2","0","2","8","-","1","1","-","0","4">>)]

HomeNoDateFields ==
    [location |-> JStr(<<"L","o","n","d","o","n">>), house_price |-> JNum(500000)]

HomeBadDateFields ==
    [location |-> JStr(<<"L","o","n","d","o","n">>), house_price |-> JNum(500000),
     deposit_amount |-> JNum(50000), purchase_date |-> JStr(<<"s","o","o","n">>)]

HomeBadPriceFields ==
    [location |-> JStr(<<"L","o","n","d","o","n">>), house_price |-> JStr(<<"5","0","0","k">>),
     deposit_amount |-> JNum(50000), purchase_date |-> JStr(<<"2","0","2","8","-","1","1","-","0","4">>)]

CarFields ==
    [car_type |-> JStr(<<"T","e","s","l","a"," ","M","o","d","e","l"," ","3">>), car_price |-> JStr(<<"4","0","0","0","0">>),
     purchase_date |-> JStr(<<"n","e","x","t"," ","m","o","n","t","h">>)]

OtherFields ==
    [description |-> JStr(<<"S","t","a","r","t"," ","a"," ","b","u","s","i","n","e","s","s">>), amount_required |-> JNum(50000),
     target_date |-> JStr(<<"i","n"," ","2"," ","y","e","a","r","s">>)]

Responses ==
    {ApiError, EmptyText, Text(Malformed), Text(JNum(5)),
     Fenced(Malformed),
     Text(JObj(IdentityFields)), Fenced(JObj(IdentityFields)),
     Text(JObj(PartialIdentityFields)),
     Text(JObj(HomeFields)), Text(JObj(HomeNoDateFields)),
     Text(JObj(HomeBadDateFields)), Text(JObj(HomeBadPriceFields)),
     Fenced(JObj(CarFields)), Text(JObj(OtherFields))}

Todays == {Date(2026, 11, 5), Date(2027, 12, 31)}

\* The reply recorded for a turn that did not call the service
NoCall == [t |-> "nocall"]

\* The texts given to parse_currency: an optional lead, a number and an
\* optional scale, the number kept beside the text it was written as.
CurrencyLeads == {<<>>, <<"$">>, <<"R","s","."," ">>}

CurrencyNumbers ==
    {[text |-> <<>>, value |-> None],
     [text |-> <<"5","0","0">>, value |-> Float(500, 0)],
     [text |-> <<"1",".","5">>, value |-> Float(15, 0 - 1)],
     [text |-> <<"2","0">>, value |-> Float(20, 0)],
     [text |-> <<"1",",","5","0","0">>, value |-> Float(1500, 0)]}

CurrencyScales ==
    {<<>>, <<"k">>, <<"M">>, <<"b">>,
     <<" ","m","i","l","l","i","o","n">>, <<" ","B","i","l","l","i","o","n">>,
     <<" ","t","h","o","u","s","a","n","d">>,
     <<" ","t","h","o","u","s","a","n","d"," ","m","i","l","l","i","o","n">>,
     <<" ","t","h","o","u","s","a","n","d"," ","b","i","l","l","i","o","n">>,
     <<"k"," ","t","h","o","u","s","a","n","d">>,
     <<" ","k","b">>, <<" ","k","m">>, <<" ","b","m">>}

CurrencyCalls ==
    {[fn |-> "parse_currency", arg |-> lead \o n.text \o scale, number |-> n.value] :
        lead \in CurrencyLeads, n \in CurrencyNumbers, scale \in CurrencyScales}

\* The texts given to parse_date: "in N <unit>" with the N and the days of
\* the unit kept beside the text, and "next month".
UnitWords ==
    {[text |-> <<"d","a","y">>, days |-> 1], [text |-> <<"D","a","y","s">>, days |-> 1],
     [text |-> <<"w","e","e","k">>, days |-> 7], [text |-> <<"w","e","e","k","s">>, days |-> 7],
     [text |-> <<"m","o","n","t","h">>, days |-> 30], [text |-> <<"M","O","N","T","H","S">>, days |-> 30],
     [text |-> <<"y","e","a","r">>, days |-> 365], [text |-> <<"Y","e","a","r","s">>, days |-> 365]}

RelativeCounts == {0, 1, 2, 3, 12, 8000, 3000000}

InWords == {<<"i","n"," ">>, <<"I","n"," ">>}

DateCalls ==
    {[fn |-> "parse_date", form |-> "in", arg |-> w \o Pad(n, 1) \o <<" ">> \o u.text,
      n |-> n, days |-> u.days] :
        w \in InWords, n \in RelativeCounts, u \in UnitWords}
    \cup
    {[fn |-> "parse_date", form |-> "next month", arg |-> a] :
        a \in {<<"n","e","x","t"," ","m","o","n","t","h">>,
               <<" ","N","e","x","t"," ","M","o","n","t","h"," ">>}}

\* No call of a parsing function, and a call that has not returned
NoParse == [fn |-> "none"]
Pending == [done |-> FALSE]

----------------------------------------------------------------------------
(* The state machine: one conversation, advanced one turn at a time.       *)

extracted == heap[state.extracted_information]
stage == extracted.conversation_stage
user == extracted.user
pending_goal == extracted.pending_goal

\* The value of a state: its own fields and the object it refers to
Value(st, h) ==
    [finished |-> st.finished, messages |-> st.messages,
     new_messages |-> st.new_messages, extracted |-> h[st.extracted_information]]

\* The scripted conversation: the k-th utterance and, where the stage calls
\* the service, its reply.
HappyUtterances == <<U_identity, U_home, U_details, U_yes, U_no>>

HappyStep(k, u, r) ==
    /\ k \in 1..Len(HappyUtterances)
    /\ u = HappyUtterances[k]
    /\ k = 1 => r = Text(JObj(IdentityFields))
    /\ k = 3 => r = Text(JObj(HomeFields))

Init ==
    /\ heap = <<ExtractedInformation>>
    /\ state = ConversationState(FALSE, <<>>, <<>>, 1)
    /\ today \in Todays
    /\ input = state
    /\ before = heap[state.extracted_information]
    /\ response = NoCall
    /\ llmCalls = 0
    /\ raised = FALSE
    /\ turns = 0
    /\ replay = None
    /\ happy = 0
    /\ call = NoParse
    /\ result = Pending

\* Whether chat_response consults the extraction service on this state:
\* in the two extraction stages, unless the utterance is a stop word
Consults(st, h) ==
    /\ ~IsStop(LastMessage(st))
    /\ h[st.extracted_information].conversation_stage \in {GET_USER_INFO, GET_GOAL_DETAILS}

\* The replies the service can give in a call of chat_response
RepliesFor(st, h) == IF Consults(st, h) THEN Responses ELSE {NoCall}

\* One turn: the caller appends the user's message to the transcript and
\* calls chat_response on the state; the service replies r if consulted.
Turn(u) ==
    /\ turns < MaxTurns
    /\ u \in UtterancesAt(stage)
    /\ ~raised
    /\ replay = None
    /\ \E in \in {[state EXCEPT !.messages = Append(@, Message(u, USER))]} :
       \E r \in RepliesFor(in, heap) :
       \E res \in {chat_response(in, heap, r, today)} :
          /\ input' = in
          /\ before' = heap[in.extracted_information]
          /\ heap' = res.heap
          /\ state' = IF res.raised THEN in ELSE res.ret
          /\ raised' = res.raised
          /\ llmCalls' = res.calls
          /\ response' = r
          /\ happy' = IF happy = turns /\ HappyStep(turns + 1, u, r)
                      THEN happy + 1 ELSE 0 - 1
    /\ turns' = turns + 1
    /\ UNCHANGED <<today, replay, call, result>>

\* The caller calls chat_response a second time on the state object it
\* passed in the last turn; the service, if consulted again, gives the reply
\* it gave before.
Replay ==
    /\ turns > 0
    /\ ~raised
    /\ replay = None
    /\ \E r \in RepliesFor(input, heap) :
         /\ (response # NoCall /\ r # NoCall) => r = response
         /\ \E res \in {chat_response(input, heap, r, today)} :
              /\ heap' = res.heap
              /\ replay' = [raised |-> res.raised,
                            first |-> Value(state, heap),
                            second |-> Value(res.ret, res.heap)]
    /\ UNCHANGED <<state, today, input, before, response, llmCalls, raised, turns, happy,
                   call, result>>

Next == \E u \in Utterances : Turn(u)

Spec == Init /\ [][Next]_vars

NextReplay ==
    \/ \E u \in Utterances : Turn(u)
    \/ Replay

SpecReplay == Init /\ [][NextReplay]_vars

----------------------------------------------------------------------------
(* The parsing functions on their own: one call of parse_currency or of    *)
(* parse_date on a text, on a given day.                                   *)

InitParse ==
    /\ heap = <<ExtractedInformation>>
    /\ state = ConversationState(FALSE, <<>>, <<>>, 1)
    /\ today \in Todays
    /\ input = state
    /\ before = heap[state.extracted_information]
    /\ response = NoCall
    /\ llmCalls = 0
    /\ raised = FALSE
    /\ turns = 0
    /\ replay = None
    /\ happy = 0
    /\ call \in CurrencyCalls \cup DateCalls
    /\ result = Pending

ParseCurrency ==
    /\ call.fn = "parse_currency"
    /\ ~result.done
    /\ result' = [done |-> TRUE, value |-> parse_currency(call.arg)]
    /\ UNCHANGED <<state, heap, today, input, before, response, llmCalls, raised,
                   turns, replay, happy, call>>

ParseDate ==
    /\ call.fn = "parse_date"
    /\ ~result.done
    /\ result' = [done |-> TRUE, value |-> parse_date(call.arg, today)]
    /\ UNCHANGED <<state, heap, today, input, before, response, llmCalls, raised,
                   turns, replay, happy, call>>

NextParse ==
    \/ ParseCurrency
    \/ ParseDate

SpecParse == InitParse /\ [][NextParse]_vars

----------------------------------------------------------------------------
(* Properties.                                                             *)

Called == turns > 0

\* The text the last call read
Utterance == LastMessage(input)

StopWords == {U_exit, U_quit, U_stop, U_done}

Closing == <<Message(<<"Thank you for providing your financial goals information.">>, AI)>>

\* C1: a stop word (after lower-casing and trimming) given in any stage
\* yields finished = TRUE and stage COMPLETED with exactly one closing AI
\* message, and the extraction service is not called.
C1_StopGuard ==
    (Called /\ Utterance \in StopWords) =>
        /\ ~raised
        /\ state.finished
        /\ stage = COMPLETED
        /\ state.new_messages = Closing
        /\ llmCalls = 0

C1_Witness ==
    /\ Called /\ Utterance = U_done
    /\ before.conversation_stage = CONFIRM_GOAL
    /\ stage = COMPLETED /\ state.finished

\* C2: the pending goal is non-null iff the stage is GET_GOAL_DETAILS or
\* CONFIRM_GOAL.
C2_PendingIffStage ==
    (~IsNone(pending_goal)) <=> (stage \in {GET_GOAL_DETAILS, CONFIRM_GOAL})

\* Whether some turn confirmed an identity: its acknowledgment is in the
\* transcript or among the messages of the last turn.
IdentityConfirmed ==
    \E i \in 1..Len(Fold(state)) :
        Fold(state)[i] = Message(<<"Thank you! What financial goal would you like to discuss? (new home/new car/other)">>, AI)

\* C3 as stated: the Person is null iff the stage is GET_USER_INFO.
C3_PersonNullIffIdentityStage == IsNone(user) <=> (stage = GET_USER_INFO)

\* C3 (amended): the Person is null iff no identity has yet been confirmed,
\* which is the case in GET_USER_INFO and in COMPLETED reached by a stop
\* word given before any identity was confirmed, and in no other stage.
C3_PersonNullIffNoIdentity ==
    /\ IsNone(user) <=> ~IdentityConfirmed
    /\ IsNone(user) <=> (stage = GET_USER_INFO \/ (stage = COMPLETED /\ ~IdentityConfirmed))

C3_Witness == Called /\ IsNone(user) /\ stage = COMPLETED /\ state.finished

\* C4: chat_response leaves the state it was given as it was: after the
\* call the input state has the stage, Person, pending goal, goals and
\* message lists it had before.
C4_InputUnchanged ==
    Called => heap[input.extracted_information] = before

\* C5: two calls with the same state and utterance, the service replying
\* the same, return states that agree on finished, stage, Person, pending
\* goal and the messages of the turn.
C5_SameResult ==
    (~IsNone(replay)) =>
        /\ ~replay.raised
        /\ replay.second.finished = replay.first.finished
        /\ replay.second.extracted = replay.first.extracted
        /\ replay.second.new_messages = replay.first.new_messages

FailureResponses == {ApiError, EmptyText, Text(Malformed), Fenced(Malformed)}

RePrompts ==
    {<<"Please provide your full name, date of birth (YYYY-MM-DD), and email">>,
     <<"I couldn't understand those home details. Please provide: location, price, deposit, and timeline (e.g. 'Buy $1.5M home in London with 50k deposit in 3 years')">>,
     <<"I couldn't understand those car details. Please provide: make/model, price, and timeline (e.g. 'Buy a Tesla Model 3 for $40k in 6 months')">>,
     <<"I couldn't understand that goal. Please describe what you want to achieve, how much money you'll need, and by when (e.g. 'Start a business needing $50k by 2025')">>}

\* C6: when the service call fails, or its reply is empty or not parseable
\* JSON, chat_response raises nothing, leaves the stage, the Person and the
\* pending goal as they were, finished stays FALSE, and the turn's messages
\* are exactly one re-prompt.
C6_ExtractionFailureNotFatal ==
    (Called /\ response \in FailureResponses) =>
        /\ before.conversation_stage \in {GET_USER_INFO, GET_GOAL_DETAILS}
        /\ ~raised
        /\ extracted = before
        /\ ~state.finished
        /\ Len(state.new_messages) = 1
        /\ state.new_messages[1].sender = AI
        /\ state.new_messages[1].text \in RePrompts

C6_Witness ==
    /\ Called /\ response = Text(Malformed)
    /\ before.conversation_stage = GET_GOAL_DETAILS
    /\ stage = GET_GOAL_DETAILS

\* The date of a goal's payload
GoalDate(g) ==
    IF g.goal_specific_information.class = "OtherGoalInformation"
    THEN g.goal_specific_information.target_date
    ELSE g.goal_specific_information.purchase_date

\* C7: no pending goal in CONFIRM_GOAL and no committed goal has a null
\* purchase or target date.
C7_NoGoalWithoutDate ==
    /\ stage = CONFIRM_GOAL => ~IsNone(GoalDate(pending_goal))
    /\ ~IsNone(user) => \A i \in 1..Len(user.goals) : ~IsNone(GoalDate(user.goals[i]))

HappyPerson(goals) ==
    [first_name |-> IdentityFields.first_name, last_name |-> IdentityFields.last_name,
     date_of_birth |-> Date(1990, 5, 1), email |-> IdentityFields.email,
     goals |-> goals]

HappyGoal ==
    Goal("NEW_HOME", <<"Buy a new home">>,
         NewHomeGoalInformation(HomeFields.location, 500000, 50000, Date(2028, 11, 4)))

\* C8: from the initial state the utterances <identity text, "home", home
\* details text, "yes", "no">, with the service returning the four identity
\* fields in turn 1 and the home details in turn 3, lead through
\* GET_GOAL_TYPE, GET_GOAL_DETAILS (pending NEW_HOME), CONFIRM_GOAL (payload
\* as extracted), ADD_ANOTHER_GOAL (goals = that one goal, nothing pending)
\* to COMPLETED with finished = TRUE; finished is FALSE before.
C8_HappyPath ==
    /\ happy = 0 => (stage = GET_USER_INFO /\ IsNone(user) /\ IsNone(pending_goal))
    /\ happy = 1 => /\ stage = GET_GOAL_TYPE /\ ~state.finished
                    /\ user = HappyPerson(<<>>) /\ IsNone(pending_goal)
    /\ happy = 2 => /\ stage = GET_GOAL_DETAILS /\ ~state.finished
                    /\ pending_goal = Goal("NEW_HOME", <<"Buy a new home">>, None)
    /\ happy = 3 => /\ stage = CONFIRM_GOAL /\ ~state.finished
                    /\ pending_goal = HappyGoal
    /\ happy = 4 => /\ stage = ADD_ANOTHER_GOAL /\ ~state.finished
                    /\ user = HappyPerson(<<HappyGoal>>) /\ IsNone(pending_goal)
    /\ happy = 5 => /\ stage = COMPLETED /\ state.finished
                    /\ user = HappyPerson(<<HappyGoal>>) /\ IsNone(pending_goal)

C8_Witness == happy = 5 /\ turns = 5 /\ state.finished

\* C9: once finished = TRUE and the stage is COMPLETED, every further call
\* returns a state with finished = TRUE and stage COMPLETED, and leaves the
\* Person, its goals and the pending goal unchanged.
C9_CompletedTerminal ==
    [][(state.finished /\ stage = COMPLETED) =>
          /\ state'.finished
          /\ stage' = COMPLETED
          /\ ~raised'
          /\ user' = user
          /\ pending_goal' = pending_goal]_vars

C9_Witness ==
    /\ turns > 1
    /\ before.conversation_stage = COMPLETED
    /\ Utterance = U_yes
    /\ state.finished /\ stage = COMPLETED
    /\ state.new_messages = <<>>

IsPrefix(a, b) == Len(a) <= Len(b) /\ SubSeq(b, 1, Len(a)) = a

\* C10: the Person is created in the turn that leaves GET_USER_INFO, the
\* stage never returns to GET_USER_INFO, and once the Person exists its
\* first name, last name, date of birth and email never change and its
\* goals only grow by appends.
C10_PersonCreatedOnce ==
    [][/\ stage # GET_USER_INFO => stage' # GET_USER_INFO
       /\ (IsNone(user) /\ ~IsNone(user')) =>
             /\ stage = GET_USER_INFO /\ stage' = GET_GOAL_TYPE
             /\ user'.goals = <<>>
       /\ ~IsNone(user) =>
             /\ ~IsNone(user')
             /\ user'.first_name = user.first_name
             /\ user'.last_name = user.last_name
             /\ user'.date_of_birth = user.date_of_birth
             /\ user'.email = user.email
             /\ IsPrefix(user.goals, user'.goals)]_vars

C10_Witness == ~IsNone(user) /\ Len(user.goals) = 2

GenericRePrompt ==
    <<Message(<<"Please provide your full name, date of birth (YYYY-MM-DD), and email">>, AI)>>

\* Whether an extraction result holds the four identity fields
HasAllIdentity(user_info) ==
    /\ user_info.t = "obj"
    /\ {"first_name", "last_name", "date_of_birth", "email"} \subseteq DOMAIN user_info.v

\* C11: in GET_USER_INFO a non-stop utterance creates the Person (no goals)
\* and moves to GET_GOAL_TYPE iff the extraction result holds first_name,
\* last_name, date_of_birth and email; otherwise the stage stays
\* GET_USER_INFO, the Person stays null, nothing is retained and the one
\* generic re-prompt is emitted.
C11_IdentityAllOrNothing ==
    (Called /\ before.conversation_stage = GET_USER_INFO /\ ~IsStop(Utterance)) =>
        /\ ~raised
        /\ IF HasAllIdentity(extract_user_info(response))
           THEN /\ stage = GET_GOAL_TYPE
                /\ ~IsNone(user)
                /\ user.goals = <<>>
           ELSE /\ stage = GET_USER_INFO
                /\ IsNone(user)
                /\ extracted = before
                /\ state.new_messages = GenericRePrompt

\* The goal kind the utterance names: "home" first, else "car", else OTHER
KindNamed(u) ==
    IF Contains(Lower(u), <<"h","o","m","e">>) THEN "NEW_HOME"
    ELSE IF Contains(Lower(u), <<"c","a","r">>) THEN "NEW_CAR"
    ELSE "OTHER"

\* C12: in GET_GOAL_TYPE every non-stop utterance moves to GET_GOAL_DETAILS
\* with a pending goal without payload, of kind NEW_HOME if the lower-cased
\* utterance contains "home", else NEW_CAR if it contains "car", else OTHER
\* ("home" wins when both occur); the Person and its goals are unchanged.
C12_GoalKindByKeyword ==
    (Called /\ before.conversation_stage = GET_GOAL_TYPE /\ ~IsStop(Utterance)) =>
        /\ ~raised
        /\ stage = GET_GOAL_DETAILS
        /\ ~IsNone(pending_goal)
        /\ IsNone(pending_goal.goal_specific_information)
        /\ pending_goal.goal_type = KindNamed(Utterance)
        /\ Utterance = U_both => pending_goal.goal_type = "NEW_HOME"
        /\ Utterance = U_car => pending_goal.goal_type = "NEW_CAR"
        /\ Utterance = U_no => pending_goal.goal_type = "OTHER"
        /\ user = before.user

C12_Witness ==
    /\ Called /\ before.conversation_stage = GET_GOAL_TYPE
    /\ Utterance = U_both
    /\ stage = GET_GOAL_DETAILS
    /\ pending_goal.goal_type = "NEW_HOME"
    /\ Len(user.goals) = 1

\* The payload class of a goal kind
PayloadClassOf(kind) ==
    CASE kind = "NEW_HOME" -> "NewHomeGoalInformation"
      [] kind = "NEW_CAR" -> "NewCarInformation"
      [] kind = "OTHER" -> "OtherGoalInformation"

\* The text and number fields of the payload of a goal kind
TextFieldsOf(kind) ==
    CASE kind = "NEW_HOME" -> {"location"}
      [] kind = "NEW_CAR" -> {"car_type"}
      [] kind = "OTHER" -> {"description"}

NumberFieldsOf(kind) ==
    CASE kind = "NEW_HOME" -> {"house_price", "deposit_amount"}
      [] kind = "NEW_CAR" -> {"car_price"}
      [] kind = "OTHER" -> {"amount_required"}

ConfirmationOpenings == {"Confirm: Buy home in ", "Confirm: Buy ", "Confirm: "}

\* What C13 says of the state after a turn whose extraction gave `details`
PayloadAttached(details) ==
    /\ ~raised
    /\ stage = CONFIRM_GOAL
    /\ pending_goal.goal_type = before.pending_goal.goal_type
    /\ pending_goal.goal_name = before.pending_goal.goal_name
    /\ ~IsNone(pending_goal.goal_specific_information)
    /\ pending_goal.goal_specific_information.class = PayloadClassOf(pending_goal.goal_type)
    /\ \A f \in TextFieldsOf(pending_goal.goal_type) :
          pending_goal.goal_specific_information[f] = Get(details, f, JStr(<<>>))
    /\ \A f \in NumberFieldsOf(pending_goal.goal_type) :
          f \notin DOMAIN details.v => pending_goal.goal_specific_information[f] = 0
    /\ Len(state.new_messages) = 1
    /\ state.new_messages[1].sender = AI
    /\ state.new_messages[1].text[1] \in ConfirmationOpenings
    /\ user = before.user

\* C13: in GET_GOAL_DETAILS, when the extraction succeeds, the pending goal
\* gets the payload of its kind (missing numbers 0, missing texts empty), its
\* kind is unchanged, the stage becomes CONFIRM_GOAL, exactly one
\* confirmation message is emitted and Person.goals is unchanged.
C13_PayloadOfKind ==
    (/\ Called
     /\ before.conversation_stage = GET_GOAL_DETAILS
     /\ ~IsStop(Utterance)
     /\ Truthy(extract_goal_details(response, today))) =>
        PayloadAttached(extract_goal_details(response, today))

\* Whether the utterance is a "yes": not a stop word, and its lower-cased
\* text starts with "y"
SaysYes == ~IsStop(Utterance) /\ StartsWith(Lower(Utterance), <<"y">>)

\* C14: in CONFIRM_GOAL a non-stop utterance starting with "y" appends the
\* pending goal, kind and payload intact, as the last element of
\* Person.goals (one longer, earlier elements unchanged), clears the pending
\* goal and moves to ADD_ANOTHER_GOAL.
C14_YesCommitsPending ==
    (Called /\ before.conversation_stage = CONFIRM_GOAL /\ SaysYes) =>
        /\ ~raised
        /\ Len(user.goals) = Len(before.user.goals) + 1
        /\ user.goals[Len(user.goals)] = before.pending_goal
        /\ SubSeq(user.goals, 1, Len(before.user.goals)) = before.user.goals
        /\ IsNone(pending_goal)
        /\ stage = ADD_ANOTHER_GOAL

C14_Witness ==
    /\ Called /\ before.conversation_stage = CONFIRM_GOAL /\ SaysYes
    /\ Len(user.goals) = 2
    /\ user.goals[1].goal_type # user.goals[2].goal_type
    /\ stage = ADD_ANOTHER_GOAL

\* C15: in CONFIRM_GOAL a non-stop utterance not starting with "y" discards
\* the pending goal, leaves Person.goals unchanged and moves back to
\* GET_GOAL_TYPE, not to GET_GOAL_DETAILS.
C15_NoDiscardsPending ==
    (/\ Called
     /\ before.conversation_stage = CONFIRM_GOAL
     /\ ~IsStop(Utterance)
     /\ ~StartsWith(Lower(Utterance), <<"y">>)) =>
        /\ ~raised
        /\ IsNone(pending_goal)
        /\ user = before.user
        /\ stage = GET_GOAL_TYPE

C15_Witness ==
    /\ Called /\ before.conversation_stage = CONFIRM_GOAL
    /\ Utterance = U_no
    /\ ~IsNone(before.pending_goal)
    /\ IsNone(pending_goal)
    /\ Len(user.goals) = 1
    /\ stage = GET_GOAL_TYPE

\* C16: in ADD_ANOTHER_GOAL a non-stop utterance starting with "y" (in any
\* case) moves to GET_GOAL_TYPE with finished = FALSE; any other utterance
\* moves to COMPLETED with finished = TRUE and one closing message; in both
\* cases Person.goals is unchanged and the pending goal stays null.
C16_AddAnotherOrComplete ==
    (Called /\ before.conversation_stage = ADD_ANOTHER_GOAL) =>
        /\ ~raised
        /\ user = before.user
        /\ IsNone(before.pending_goal)
        /\ IsNone(pending_goal)
        /\ IF SaysYes
           THEN stage = GET_GOAL_TYPE /\ ~state.finished
           ELSE stage = COMPLETED /\ state.finished /\ state.new_messages = Closing

C16_Witness ==
    /\ Called /\ before.conversation_stage = ADD_ANOTHER_GOAL
    /\ Utterance = U_Yep
    /\ stage = GET_GOAL_TYPE
    /\ ~state.finished

\* C17: the returned transcript is the input transcript followed by the
\* input state's new_messages (so the input transcript is a prefix of it and
\* nothing is dropped, reordered or duplicated), and the returned
\* new_messages holds exactly the AI messages of this turn: one, or none
\* when a non-stop utterance arrives in COMPLETED.
C17_TranscriptAppendOnly ==
    (Called /\ ~raised) =>
        /\ state.messages = input.messages \o input.new_messages
        /\ IsPrefix(input.messages, state.messages)
        /\ Len(state.messages) = Len(input.messages) + Len(input.new_messages)
        /\ \A i \in 1..Len(state.new_messages) : state.new_messages[i].sender = AI
        /\ Len(state.new_messages) =
              IF before.conversation_stage = COMPLETED /\ ~IsStop(Utterance) THEN 0 ELSE 1

C17_Witness ==
    /\ Called /\ ~raised /\ turns > 2
    /\ Len(input.new_messages) = 1
    /\ Len(state.messages) = Len(input.messages) + 1
    /\ state.messages[Len(state.messages)] = input.new_messages[1]
    /\ Len(state.new_messages) = 1

\* C20: in every reachable state finished = TRUE iff the stage is
\* COMPLETED, and the stage becomes COMPLETED only in a turn whose utterance
\* is a stop word or in a turn taken in ADD_ANOTHER_GOAL with an utterance
\* not starting with "y".
C20_FinishedIffCompleted ==
    /\ state.finished <=> (stage = COMPLETED)
    /\ (Called /\ stage = COMPLETED /\ before.conversation_stage # COMPLETED) =>
          \/ IsStop(Utterance)
          \/ /\ before.conversation_stage = ADD_ANOTHER_GOAL
             /\ ~StartsWith(Lower(Utterance), <<"y">>)

C20_Witness ==
    /\ Called /\ before.conversation_stage = ADD_ANOTHER_GOAL
    /\ Utterance = U_no
    /\ stage = COMPLETED
    /\ state.finished

\* The decimal exponent of the multiplier C18 gives for a text
ClaimedExp(text) ==
    IF Contains(Lower(text), <<"m","i","l","l","i","o","n">>) THEN 6
    ELSE IF Contains(Lower(text), <<"b","i","l","l","i","o","n">>) THEN 9
    ELSE IF Contains(Lower(text), <<"t","h","o","u","s","a","n","d">>) THEN 3
    ELSE IF Contains(Lower(text), <<"m">>) THEN 6
    ELSE IF Contains(Lower(text), <<"b">>) THEN 9
    ELSE IF Contains(Lower(text), <<"k">>) THEN 3
    ELSE 0

\* C18: parse_currency returns none when the text has no numeric substring,
\* and otherwise the first numeric substring times the multiplier chosen in
\* the order million, billion, thousand, m, b, k, else 1; "1.5M" gives
\* 1500000, "20k" 20000, "$500" 500 and "" none.
C18_AmountTimesMultiplier ==
    (result.done /\ call.fn = "parse_currency") =>
        /\ IsNone(call.number) => IsNone(result.value)
        /\ ~IsNone(call.number) =>
              result.value = Times(call.number, ClaimedExp(call.arg))
        /\ call.arg = <<"1",".","5","M">> => result.value = Float(1500000, 0)
        /\ call.arg = <<"2","0","k">> => result.value = Float(20000, 0)
        /\ call.arg = <<"$","5","0","0">> => result.value = Float(500, 0)
        /\ call.arg = <<>> => IsNone(result.value)

\* The first day of the calendar month after today
FirstOfFollowingMonth ==
    IF today.month = 12 THEN Date(today.year + 1, 1, 1)
    ELSE Date(today.year, today.month + 1, 1)

\* The last day a date can hold: 9999-12-31
LastOrdinal == ToOrdinal(Date(9999, 12, 31))

\* The result of the call is the day `days` days after today
IsDaysAfterToday(days) ==
    /\ ~IsNone(result.value)
    /\ ValidDate(result.value.year, result.value.month, result.value.day)
    /\ ToOrdinal(result.value) = ToOrdinal(today) + days

\* C19 as stated: for every "in N <unit>" the result is today + N, 7N, 30N
\* or 365N days, and "next month" is the first day of the following month.
C19_RelativeDatesAlways ==
    (result.done /\ call.fn = "parse_date") =>
        /\ call.form = "in" => IsDaysAfterToday(call.n * call.days)
        /\ call.form = "next month" => result.value = FirstOfFollowingMonth

\* C19 (amended): for every "in N <unit>" the result is today + N, 7N, 30N or
\* 365N days when that day is not after 9999-12-31, and none when it is;
\* "next month" is the first day of the following calendar month, December
\* wrapping to January of the next year.
C19_RelativeDatesInRange ==
    (result.done /\ call.fn = "parse_date") =>
        /\ call.form = "in" =>
              IF ToOrdinal(today) + call.n * call.days <= LastOrdinal
              THEN IsDaysAfterToday(call.n * call.days)
              ELSE IsNone(result.value)
        /\ call.form = "next month" => result.value = FirstOfFollowingMonth

C19_Witness ==
    /\ result.done /\ call.fn = "parse_date" /\ call.form = "in"
    /\ call.n = 12 /\ call.days = 30
    /\ today = Date(2027, 12, 31)
    /\ result.value = Date(2028, 12, 25)

\* The committed goals of a Person, none while there is no Person
GoalsOf(u) == IF IsNone(u) THEN <<>> ELSE u.goals

\* C21: Person.goals changes only in a turn taken in CONFIRM_GOAL with a
\* non-stop utterance starting with "y", and then by the pending goal of
\* that turn; every other turn (a stop word while a goal is pending, a
\* failed or a successful detail extraction included) leaves Person.goals
\* as it was, so no unconfirmed pending goal is among the committed goals:
\* each committed goal carries the payload it was confirmed with.
C21_GoalsChangeOnlyOnYes ==
    Called =>
        /\ GoalsOf(user) # GoalsOf(before.user) =>
              /\ before.conversation_stage = CONFIRM_GOAL
              /\ SaysYes
              /\ GoalsOf(user) = Append(GoalsOf(before.user), before.pending_goal)
        /\ (before.conversation_stage # CONFIRM_GOAL \/ ~SaysYes) =>
              GoalsOf(user) = GoalsOf(before.user)
        /\ \A i \in 1..Len(GoalsOf(user)) :
              ~IsNone(GoalsOf(user)[i].goal_specific_information)

C21_Witness ==
    /\ Called /\ before.conversation_stage = CONFIRM_GOAL
    /\ IsStop(Utterance)
    /\ ~IsNone(before.pending_goal)
    /\ ~IsNone(pending_goal)
    /\ Len(user.goals) = 1
    /\ user.goals = before.user.goals
    /\ stage = COMPLETED

====
